---- MODULE Spec2Model ----
(***************************************************************************)
(* The application shell `App` of engine/yew_frontend/src/lib.rs as a      *)
(* state machine: the component's fields, the component's message queue,   *)
(* and one action per message handler of App::update, plus App::view and   *)
(* App::rendered.                                                          *)
(*                                                                         *)
(* The component runs under the Yew scheduler, which is not part of the    *)
(* repository.  What the model takes from it is the contract the           *)
(* Component trait documents: messages sent through ctx.link() are         *)
(* delivered to update() one at a time in the order sent; an update()      *)
(* that returns true schedules one view() followed by one rendered();      *)
(* queued updates run before a scheduled view(), and a scheduled view()    *)
(* runs before rendered().  Event sources (the animation frame, the init   *)
(* task, callbacks handed to children and to the game) may send at any     *)
(* moment, so a message can be waiting behind any other.                   *)
(***************************************************************************)
EXTENDS Integers, Sequences, FiniteSets, TLC

\* Bound of the model: how many messages event sources may have waiting.
MaxQueue == 2
\* Bound of the model: the cap of the request/recreate bookkeeping counter.
MaxCredit == 2

VARIABLES
    recreating_canvas,  \* App::recreating_canvas: "None" | "Started" | "Finished"
    infrastructure,     \* App::infrastructure: "None" | "Some"
    fatal_error,        \* App::fatal_error: "None" or the message
    ui_props,           \* App::ui_props
    context_menu,       \* App::context_menu: "None" or the menu
    animation_frame,    \* App::_animation_frame: "requested" | "fired"
    queue,              \* messages sent through ctx.link(), not yet updated
    render_queued,      \* a view() is scheduled
    rendered_queued,    \* a rendered() is scheduled
    has_rendered,       \* rendered() has run once (first_render is over)
    init_task,          \* the future spawned by the first rendered()
    view_canvas,        \* the Canvas element is in the most recently rendered view
    calls,              \* infrastructure methods invoked by the step just taken
    console,            \* console_log! lines written by the step just taken
    renderer,           \* the renderer inside infrastructure: "ok" | "failed"
    handled,            \* the AppMsg variant update() handled in the step just taken
    previous,           \* the value recreating_canvas had before it last changed
    entered,            \* the last two values other than None that recreating_canvas changed to
    canvas_cycle,       \* render passes since the last recreate_renderer(): "idle" | "removed" | "restored"
    recreate_credit,    \* RecreateCanvas messages updated minus recreate_renderer() calls (capped above)
    outbound_enabled,   \* App::outbound_enabled
    queue_cap,          \* how many messages event sources may have waiting in this run
    mr,                 \* one evaluation of map_ranges: its arguments and its result
    so,                 \* one render of StatusOverlay: its props and what it shows
    rf                  \* the Refresh button of the FatalError overlay: its futures, the page

vars == <<recreating_canvas, infrastructure, fatal_error, ui_props, context_menu,
          animation_frame, queue, render_queued, rendered_queued, has_rendered,
          init_task, view_canvas, calls, console, renderer, handled, previous,
          entered, canvas_cycle, recreate_credit, outbound_enabled, queue_cap, mr, so, rf>>

app == <<recreating_canvas, infrastructure, fatal_error, ui_props, context_menu>>
ghost == <<previous, entered, canvas_cycle, recreate_credit>>
\* What the handlers of the lifecycle leave alone: the outbound flag, and
\* the components outside App.
rest == <<outbound_enabled, queue_cap, mr, so, rf>>

\* enum RecreatingCanvas
RecreatingCanvas == {"None", "Started", "Finished"}

\* enum AppMsg (the variants the lifecycle interacts with; Keyboard stands
\* for the handlers that only forward to infrastructure)
Msg(kind, arg) == [msg |-> kind, arg |-> arg]
RecreateCanvasMsg == Msg("RecreateCanvas", "")
RecreateCanvasPart2Msg == Msg("RecreateCanvasPart2", "")
RecreateRendererMsg == Msg("RecreateRenderer", "")
FrameMsg == Msg("Frame", "")
KeyboardMsg == Msg("Keyboard", "")
CreateInfrastructureMsg == Msg("CreateInfrastructure", "")

\* Payloads drawn for the messages that carry data.
UiPropsValues == {"default", "props"}
ContextMenuValues == {"None", "menu"}
ErrorValues == {"init failed"}
RendererResults == {"Ok", "Err"}

\* #[derive(Default)] enum RecreatingCanvas { #[default] None, .. }
RecreatingCanvasUnset == "Started"
RecreatingCanvasDefault == "None"

\* Outside App nothing has been evaluated, rendered or clicked.
NoMapping == [phase |-> "none"]
NoOverlay == [phase |-> "none"]
NoRefresh == [page |-> "none"]

\* App::create
AppInit ==
    /\ recreating_canvas = RecreatingCanvasDefault
    /\ infrastructure = "None"
    /\ fatal_error = "None"
    /\ ui_props = "default"
    /\ context_menu = "None"
    /\ animation_frame = "requested"
    /\ queue = <<>>
    /\ render_queued = TRUE
    /\ rendered_queued = TRUE
    /\ has_rendered = FALSE
    /\ init_task = "not_started"
    /\ view_canvas = FALSE
    /\ calls = <<>>
    /\ console = <<>>
    /\ renderer = "ok"
    /\ handled = ""
    /\ previous = "None"
    /\ entered = <<>>
    /\ canvas_cycle = "idle"
    /\ recreate_credit = 0
    /\ outbound_enabled = TRUE

\* The application alone, its event sources holding at most MaxQueue messages.
Init ==
    /\ AppInit
    /\ queue_cap = MaxQueue
    /\ mr = NoMapping
    /\ so = NoOverlay
    /\ rf = NoRefresh

(***************************************************************************)
(* Sending: ctx.link().send_message / Callback::emit                       *)
(***************************************************************************)

\* An event source outside the component sends m.
Send(m) ==
    /\ Len(queue) < queue_cap
    /\ queue' = Append(queue, m)
    /\ calls' = <<>>
    /\ console' = <<>>
    /\ handled' = ""
    /\ UNCHANGED <<app, renderer, render_queued, rendered_queued, has_rendered, view_canvas,
                   ghost, rest>>

\* The request_animation_frame callback of create_animation_frame fires.
AnimationFrameFires ==
    /\ animation_frame = "requested"
    /\ animation_frame' = "fired"
    /\ Send(FrameMsg)
    /\ UNCHANGED init_task

\* recreate_renderer_callback, handed to the children by view().
SendRecreateCanvas ==
    /\ has_rendered
    /\ Send(RecreateCanvasMsg)
    /\ UNCHANGED <<animation_frame, init_task>>

\* set_ui_props, handed to the game client by the first rendered().
SendSetUiProps ==
    /\ infrastructure = "Some"
    /\ \E p \in UiPropsValues : Send(Msg("SetUiProps", p))
    /\ UNCHANGED <<animation_frame, init_task>>

\* set_context_menu_callback, handed to the children by view().
SendSetContextMenuProps ==
    /\ has_rendered
    /\ \E p \in ContextMenuValues : Send(Msg("SetContextMenuProps", p))
    /\ UNCHANGED <<animation_frame, init_task>>

\* keyboard_callback of the KeyboardEventsListener made in create().
SendKeyboard ==
    /\ Send(KeyboardMsg)
    /\ UNCHANGED <<animation_frame, init_task>>

\* The future of the first rendered() completes: Infrastructure::new
\* returned Ok (CreateInfrastructure) or Err (FatalError).
InitTaskCompletes ==
    /\ init_task = "pending"
    /\ init_task' = "done"
    /\ \/ Send(CreateInfrastructureMsg)
       \/ \E e \in ErrorValues : Send(Msg("FatalError", e))
    /\ UNCHANGED animation_frame

(***************************************************************************)
(* App::update                                                             *)
(***************************************************************************)

\* The scheduler hands the oldest waiting message to update(); updates
\* start once the first render pass is over.
Deliver(m) ==
    /\ has_rendered
    /\ queue # <<>>
    /\ Head(queue) = m
    /\ queue' = Tail(queue)

\* update() returned ret: true schedules a view() and its rendered().
ScheduleRender(ret) ==
    /\ render_queued' = (render_queued \/ ret)
    /\ rendered_queued' = (rendered_queued \/ ret)

\* Bookkeeping of an assignment to recreating_canvas: the value it changed
\* from, and the values other than None it changed to.
Assign(new) ==
    /\ recreating_canvas' = new
    /\ previous' = IF new # recreating_canvas THEN recreating_canvas ELSE previous
    /\ entered' = IF new # recreating_canvas /\ new # "None"
                  THEN (IF entered = <<>> THEN <<new>> ELSE <<entered[Len(entered)], new>>)
                  ELSE entered

\* A call of an infrastructure method and what it returned.
Call(fn, ret) == [fn |-> fn, ret |-> ret]

\* Variant of OnRecreateCanvas: a request during a recreation is ignored.
OnRecreateCanvasDebounced(rc) == IF rc = "None" THEN "Started" ELSE rc

\* self.recreating_canvas = RecreatingCanvas::Started
OnRecreateCanvas(rc) == "Started"

\* Variant of OnRecreateCanvasPart2: the handler assigns the wrong variant.
OnRecreateCanvasPart2Resets(rc) == "None"

\* self.recreating_canvas = RecreatingCanvas::Finished
OnRecreateCanvasPart2(rc) == "Finished"

\* Variant of OnRecreateRenderer: the handler forgets to reset the state.
OnRecreateRendererKeeps(rc) == rc

\* self.recreating_canvas = RecreatingCanvas::None
OnRecreateRenderer(rc) == "None"

\* Variant of ShouldFrame: the frame is never rendered.
ShouldFrameNever(rc) == FALSE

\* Variant of ShouldFrame: no test of recreating_canvas.
ShouldFrameAlways(rc) == TRUE

\* Variant of ShouldFrame: frames only when no recreation is in progress.
ShouldFrameIdleOnly(rc) == rc = "None"

\* if self.recreating_canvas != RecreatingCanvas::Started { ...frame() }
ShouldFrame(rc) == rc # "Started"

\* Variant of RearmAnimationFrame: the next frame is requested only when a
\* frame was rendered.
RearmAnimationFrameIfRendered(rc) == IF rc # "Started" THEN "requested" ELSE "fired"

\* self._animation_frame = Self::create_animation_frame(ctx), after the if
RearmAnimationFrame(rc) == "requested"

\* assert!(self.infrastructure.is_none())
CreateInfrastructureAsserts(infra) == infra = "None"

\* Variant of RecreateRendererLog: the error is swallowed.
RecreateRendererLogSilent(result) ==
    IF result = "Err" THEN <<>> ELSE <<"finished recreating renderer">>

\* The line console_log! writes for the result of recreate_renderer().
RecreateRendererLog(result) ==
    IF result = "Err" THEN <<"could not recreate renderer">>
    ELSE <<"finished recreating renderer">>

\* AppMsg::RecreateCanvas
UpdateRecreateCanvas ==
    /\ Deliver(RecreateCanvasMsg)
    /\ handled' = "RecreateCanvas"
    /\ Assign(OnRecreateCanvas(recreating_canvas))
    /\ console' = <<"started recreating canvas">>
    /\ calls' = <<>>
    /\ ScheduleRender(TRUE)
    /\ UNCHANGED rest
    /\ recreate_credit' = IF recreate_credit < MaxCredit THEN recreate_credit + 1
                          ELSE recreate_credit
    /\ UNCHANGED <<infrastructure, fatal_error, ui_props, context_menu, animation_frame,
                   has_rendered, init_task, view_canvas, renderer, canvas_cycle>>

\* AppMsg::RecreateCanvasPart2
UpdateRecreateCanvasPart2 ==
    /\ Deliver(RecreateCanvasPart2Msg)
    /\ handled' = "RecreateCanvasPart2"
    /\ Assign(OnRecreateCanvasPart2(recreating_canvas))
    /\ console' = <<"finished recreating canvas">>
    /\ calls' = <<>>
    /\ ScheduleRender(TRUE)
    /\ UNCHANGED rest
    /\ UNCHANGED <<infrastructure, fatal_error, ui_props, context_menu, animation_frame,
                   has_rendered, init_task, view_canvas, renderer, canvas_cycle,
                   recreate_credit>>

\* AppMsg::RecreateRenderer
UpdateRecreateRenderer ==
    /\ Deliver(RecreateRendererMsg)
    /\ handled' = "RecreateRenderer"
    /\ Assign(OnRecreateRenderer(recreating_canvas))
    /\ IF infrastructure = "Some"
       THEN /\ \E result \in RendererResults :
                  /\ calls' = <<Call("recreate_renderer", result)>>
                  /\ console' = RecreateRendererLog(result)
                  /\ renderer' = IF result = "Ok" THEN "ok" ELSE "failed"
            /\ recreate_credit' = IF recreate_credit >= 0 THEN recreate_credit - 1
                                  ELSE recreate_credit
       ELSE /\ console' = <<>>
            /\ calls' = <<>>
            /\ UNCHANGED <<renderer, recreate_credit>>
    /\ ScheduleRender(TRUE)
    /\ UNCHANGED rest
    /\ canvas_cycle' = "idle"
    /\ UNCHANGED <<infrastructure, fatal_error, ui_props, context_menu, animation_frame,
                   has_rendered, init_task, view_canvas>>

\* AppMsg::CreateInfrastructure. A failing assertion panics, which ends
\* the application: "panicked" stands for that.
UpdateCreateInfrastructure ==
    /\ Deliver(CreateInfrastructureMsg)
    /\ handled' = "CreateInfrastructure"
    /\ infrastructure' = IF CreateInfrastructureAsserts(infrastructure) THEN "Some" ELSE "panicked"
    /\ calls' = <<>>
    /\ console' = <<>>
    /\ ScheduleRender(FALSE)
    /\ UNCHANGED rest
    /\ UNCHANGED <<recreating_canvas, fatal_error, ui_props, context_menu, animation_frame,
                   has_rendered, init_task, view_canvas, renderer, ghost>>

\* AppMsg::FatalError
UpdateFatalError ==
    /\ \E e \in ErrorValues :
          /\ Deliver(Msg("FatalError", e))
          /\ handled' = "FatalError"
          /\ fatal_error' = e
    /\ calls' = <<>>
    /\ console' = <<>>
    /\ ScheduleRender(TRUE)
    /\ UNCHANGED rest
    /\ UNCHANGED <<recreating_canvas, infrastructure, ui_props, context_menu, animation_frame,
                   has_rendered, init_task, view_canvas, renderer, ghost>>

\* Variant of UpdateFrame: the frame loop ends a recreation.
UpdateFrameResets ==
    /\ Deliver(FrameMsg)
    /\ handled' = "Frame"
    /\ Assign("None")
    /\ calls' = IF infrastructure = "Some" THEN <<Call("frame", "")>> ELSE <<>>
    /\ animation_frame' = "requested"
    /\ console' = <<>>
    /\ ScheduleRender(FALSE)
    /\ UNCHANGED rest
    /\ UNCHANGED <<infrastructure, fatal_error, ui_props, context_menu, has_rendered, init_task,
                   view_canvas, renderer, canvas_cycle, recreate_credit>>

\* AppMsg::Frame
UpdateFrame ==
    /\ Deliver(FrameMsg)
    /\ handled' = "Frame"
    /\ calls' = IF ShouldFrame(recreating_canvas) /\ infrastructure = "Some"
                THEN <<Call("frame", "")>> ELSE <<>>
    /\ animation_frame' = RearmAnimationFrame(recreating_canvas)
    /\ console' = <<>>
    /\ ScheduleRender(FALSE)
    /\ UNCHANGED rest
    /\ UNCHANGED <<app, has_rendered, init_task, view_canvas, renderer, ghost>>

\* AppMsg::Keyboard
UpdateKeyboard ==
    /\ Deliver(KeyboardMsg)
    /\ handled' = "Keyboard"
    /\ calls' = IF infrastructure = "Some" THEN <<Call("keyboard", "")>> ELSE <<>>
    /\ console' = <<>>
    /\ ScheduleRender(FALSE)
    /\ UNCHANGED rest
    /\ UNCHANGED <<app, animation_frame, has_rendered, init_task, view_canvas, renderer, ghost>>

\* AppMsg::SetContextMenuProps
UpdateSetContextMenuProps ==
    /\ \E p \in ContextMenuValues :
          /\ Deliver(Msg("SetContextMenuProps", p))
          /\ handled' = "SetContextMenuProps"
          /\ context_menu' = p
    /\ calls' = <<>>
    /\ console' = <<>>
    /\ ScheduleRender(TRUE)
    /\ UNCHANGED rest
    /\ UNCHANGED <<recreating_canvas, infrastructure, fatal_error, ui_props, animation_frame,
                   has_rendered, init_task, view_canvas, renderer, ghost>>

\* AppMsg::SetUiProps
UpdateSetUiProps ==
    /\ \E p \in UiPropsValues :
          /\ Deliver(Msg("SetUiProps", p))
          /\ handled' = "SetUiProps"
          /\ ui_props' = p
    /\ calls' = <<>>
    /\ console' = <<>>
    /\ ScheduleRender(TRUE)
    /\ UNCHANGED rest
    /\ UNCHANGED <<recreating_canvas, infrastructure, fatal_error, context_menu, animation_frame,
                   has_rendered, init_task, view_canvas, renderer, ghost>>

\* fn update: one message is handled.
Update ==
    \/ UpdateRecreateCanvas
    \/ UpdateRecreateCanvasPart2
    \/ UpdateRecreateRenderer
    \/ UpdateCreateInfrastructure
    \/ UpdateFatalError
    \/ UpdateFrame
    \/ UpdateKeyboard
    \/ UpdateSetContextMenuProps
    \/ UpdateSetUiProps

(***************************************************************************)
(* App::view and App::rendered                                             *)
(***************************************************************************)

\* Variant of CanvasInView: the Canvas element is rendered unconditionally.
CanvasInViewAlways(rc) == TRUE

\* if self.recreating_canvas != RecreatingCanvas::Started { <Canvas .../> }
CanvasInView(rc) == rc # "Started"

\* Variant of RenderedMessages: the renderer is recreated as soon as the
\* canvas is removed, without putting the canvas back first.
RenderedMessagesNoPart2(rc) ==
    CASE rc = "None" -> <<>>
      [] rc = "Started" -> <<RecreateRendererMsg>>
      [] rc = "Finished" -> <<RecreateRendererMsg>>

\* Variant of RenderedMessages: the two arms are swapped.
RenderedMessagesSwapped(rc) ==
    CASE rc = "None" -> <<>>
      [] rc = "Started" -> <<RecreateRendererMsg>>
      [] rc = "Finished" -> <<RecreateCanvasPart2Msg>>

\* Variant of RenderedMessages: nothing follows the restored canvas.
RenderedMessagesNoRenderer(rc) ==
    CASE rc = "None" -> <<>>
      [] rc = "Started" -> <<RecreateCanvasPart2Msg>>
      [] rc = "Finished" -> <<>>

\* The messages the match at the end of rendered() sends.
RenderedMessages(rc) ==
    CASE rc = "None" -> <<>>
      [] rc = "Started" -> <<RecreateCanvasPart2Msg>>
      [] rc = "Finished" -> <<RecreateRendererMsg>>

\* fn view: the scheduled render; it waits for the queued updates, except
\* for the first render, which comes before any update.
\* What view() asks infrastructure, with the answers it can get:
\* connection_lost(), and is_reconnecting() once neither overlay of
\* FatalError is chosen. Without infrastructure both default to false.
ViewCalls(infra, fatal) ==
    IF infra # "Some" THEN {<<>>}
    ELSE {<<Call("connection_lost", "true")>>} \cup
         (IF fatal # "None" THEN {<<Call("connection_lost", "false")>>}
          ELSE {<<Call("connection_lost", "false"), Call("is_reconnecting", r)>> :
                    r \in {"true", "false"}})

\* Variant of Overlays: the context menu is rendered outside the else.
OverlaysMenuOutside(lost, fatal, menu, reconnecting) ==
    (IF lost THEN {<<"FatalError", "connection_lost_message">>}
     ELSE IF fatal # "None" THEN {<<"FatalError", fatal>>}
     ELSE {<<"UI", "">>, <<"Switch", "">>} \cup
          (IF reconnecting THEN {<<"Reconnecting", "">>} ELSE {})) \cup
    (IF menu # "None" THEN {<<"context_menu", menu>>} ELSE {})

\* What view() puts after the Canvas: each element with its content.
\* <FatalError/> shows t().connection_lost_message().
Overlays(lost, fatal, menu, reconnecting) ==
    IF lost THEN {<<"FatalError", "connection_lost_message">>}
    ELSE IF fatal # "None" THEN {<<"FatalError", fatal>>}
    ELSE {<<"UI", "">>, <<"Switch", "">>} \cup
         (IF menu # "None" THEN {<<"context_menu", menu>>} ELSE {}) \cup
         (IF reconnecting THEN {<<"Reconnecting", "">>} ELSE {})

\* fn view: runs once no update is waiting.
View ==
    /\ render_queued
    /\ queue = <<>> \/ ~has_rendered
    /\ render_queued' = FALSE
    /\ view_canvas' = CanvasInView(recreating_canvas)
    /\ canvas_cycle' = IF ~view_canvas' THEN "removed"
                       ELSE IF canvas_cycle = "removed" THEN "restored"
                       ELSE canvas_cycle
    /\ calls' \in ViewCalls(infrastructure, fatal_error)
    /\ console' = <<>>
    /\ handled' = ""
    /\ UNCHANGED <<app, animation_frame, queue, rendered_queued, has_rendered, init_task,
                   renderer, previous, entered, recreate_credit, rest>>

\* Variant of SpawnsInitTask: every rendered() starts the initialisation.
SpawnsInitTaskAlways(first_render) == TRUE

\* if first_render { ... spawn_local(future) }
SpawnsInitTask(first_render) == first_render

\* fn rendered: runs after the view, once no update and no view is waiting.
Rendered ==
    /\ rendered_queued
    /\ ~render_queued
    /\ queue = <<>> \/ ~has_rendered
    /\ rendered_queued' = FALSE
    /\ has_rendered' = TRUE
    /\ init_task' = IF SpawnsInitTask(~has_rendered) THEN "pending" ELSE init_task
    /\ queue' = queue \o RenderedMessages(recreating_canvas)
    /\ calls' = <<>>
    /\ console' = <<>>
    /\ handled' = ""
    /\ UNCHANGED <<app, animation_frame, render_queued, view_canvas, renderer, ghost, rest>>

Next ==
    \/ AnimationFrameFires
    \/ SendRecreateCanvas
    \/ SendSetUiProps
    \/ SendSetContextMenuProps
    \/ SendKeyboard
    \/ InitTaskCompletes
    \/ UpdateRecreateCanvas
    \/ UpdateRecreateCanvasPart2
    \/ UpdateRecreateRenderer
    \/ UpdateCreateInfrastructure
    \/ UpdateFatalError
    \/ UpdateFrame
    \/ UpdateKeyboard
    \/ UpdateSetContextMenuProps
    \/ UpdateSetUiProps
    \/ View
    \/ Rendered

Spec == Init /\ [][Next]_vars

\* The scheduler runs whatever it has queued: a waiting message is updated;
\* whenever no update is waiting it renders the scheduled view, and calls
\* the scheduled rendered(), before it takes further events, so neither is
\* put off forever by messages that keep arriving.
\* Event sources do not flood the component: the scheduler drains the
\* whole queue in one run, so the queue is empty time and again.
FairSpec ==
    /\ Spec
    /\ WF_vars(Update)
    /\ SF_vars(View)
    /\ SF_vars(Rendered)
    /\ []<>(queue = <<>>)

\* FairSpec, and a browser that keeps firing requested animation frames.
FrameSpec ==
    /\ FairSpec
    /\ SF_vars(AnimationFrameFires)

(***************************************************************************)
(* The other messages of AppMsg                                            *)
(***************************************************************************)

\* How many messages the event sources may have waiting when every kind of
\* message is sent.
MaxShellQueue == 1

\* Callbacks of the listeners made in create().
ListenerKinds == {"KeyboardFocus", "VisibilityChange", "Trace"}
\* Callbacks that view() hands to the children through the contexts.
ContextKinds == {"ChangeCommonSettings", "ChangeSettings", "SendChatRequest", "SendPlayerRequest",
                 "RawZoom", "SetServerId", "SendUiEvent", "SendTeamRequest"}
\* Callbacks of the Canvas element.
CanvasKinds == {"Mouse", "Touch", "MouseFocus", "Wheel"}
\* The messages whose arm only hands the payload to infrastructure.
ForwardKinds == ListenerKinds \cup ContextKinds \cup CanvasKinds
SettingsKinds == {"ChangeCommonSettings", "ChangeSettings"}
\* Strings the parent window posts; "other" stands for any other string.
MessageValues == {"snippetLoaded", "enableOutbound", "disableOutbound", "mute", "unmute", "other"}

\* The call each arm makes on infrastructure.
ForwardCall(kind) ==
    CASE kind = "ChangeCommonSettings" -> Call("change", "common_settings")
      [] kind = "ChangeSettings" -> Call("change", "settings")
      [] kind = "SetServerId" -> Call("choose_server_id", "")
      [] kind = "KeyboardFocus" -> Call("keyboard_focus", "")
      [] kind = "Mouse" -> Call("mouse", "")
      [] kind = "MouseFocus" -> Call("mouse_focus", "")
      [] kind = "RawZoom" -> Call("raw_zoom", "")
      [] kind = "SendChatRequest" -> Call("send_request", "Chat")
      [] kind = "SendPlayerRequest" -> Call("send_request", "Player")
      [] kind = "SendTeamRequest" -> Call("send_request", "Team")
      [] kind = "SendUiEvent" -> Call("ui_event", "")
      [] kind = "Touch" -> Call("touch", "")
      [] kind = "Trace" -> Call("trace", "")
      [] kind = "VisibilityChange" -> Call("visibility_change", "")
      [] kind = "Wheel" -> Call("wheel", "")

\* Variant of ForwardReturns: "just in case" is returned outside the if let.
ForwardReturnsJustInCase(kind, infra) == kind \in SettingsKinds

\* What update() returns for a forwarding arm: true from inside the if let
\* of the two settings arms, the final false otherwise.
ForwardReturns(kind, infra) == kind \in SettingsKinds /\ infra = "Some"

\* console_log!("received message: {}", message)
MessageLog(message) == "received message: " \o message

\* Variant of OnMessageOutbound: every string but "disableOutbound" enables.
OnMessageOutboundDefaultsOn(message, outbound) == message # "disableOutbound"

\* self.outbound_enabled after AppMsg::Message(message)
OnMessageOutbound(message, outbound) ==
    CASE message = "enableOutbound" -> TRUE
      [] message = "disableOutbound" -> FALSE
      [] OTHER -> outbound

\* What update() returns for AppMsg::Message(message).
MessageReturns(message) == message \in {"enableOutbound", "disableOutbound"}

\* What the arm of AppMsg::Message may call: "mute" and "unmute" reach the
\* audio only in a build with the audio feature.
MessageCalls(message, infra) ==
    CASE message = "snippetLoaded" -> {<<Call("post_message", "gameLoaded")>>}
      [] message = "mute" /\ infra = "Some" -> {<<>>, <<Call("set_muted_by_ad", "true")>>}
      [] message = "unmute" /\ infra = "Some" -> {<<>>, <<Call("set_muted_by_ad", "false")>>}
      [] OTHER -> {<<>>}

SendFromListener ==
    /\ \E k \in ListenerKinds : Send(Msg(k, ""))
    /\ UNCHANGED <<animation_frame, init_task>>

SendFromContext ==
    /\ has_rendered
    /\ \E k \in ContextKinds : Send(Msg(k, ""))
    /\ UNCHANGED <<animation_frame, init_task>>

\* The Canvas element sends while it is in the rendered view.
SendFromCanvas ==
    /\ view_canvas
    /\ \E k \in CanvasKinds : Send(Msg(k, ""))
    /\ UNCHANGED <<animation_frame, init_task>>

\* The "message" listener of the window: only strings are passed on.
SendMessage ==
    /\ \E s \in MessageValues : Send(Msg("Message", s))
    /\ UNCHANGED <<animation_frame, init_task>>

\* The arms that hand the payload to infrastructure, if there is one.
UpdateForward ==
    /\ \E k \in ForwardKinds :
          /\ Deliver(Msg(k, ""))
          /\ handled' = k
          /\ calls' = IF infrastructure = "Some" THEN <<ForwardCall(k)>> ELSE <<>>
          /\ ScheduleRender(ForwardReturns(k, infrastructure))
    /\ console' = <<>>
    /\ UNCHANGED rest
    /\ UNCHANGED <<app, animation_frame, has_rendered, init_task, view_canvas, renderer, ghost>>

\* AppMsg::Message
UpdateMessage ==
    /\ \E s \in MessageValues :
          /\ Deliver(Msg("Message", s))
          /\ calls' \in MessageCalls(s, infrastructure)
          /\ outbound_enabled' = OnMessageOutbound(s, outbound_enabled)
          /\ ScheduleRender(MessageReturns(s))
          /\ console' = <<MessageLog(s)>>
    /\ handled' = "Message"
    /\ UNCHANGED <<queue_cap, mr, so, rf>>
    /\ UNCHANGED <<app, animation_frame, has_rendered, init_task, view_canvas, renderer, ghost>>

\* The application with every variant of AppMsg.
ShellInit ==
    /\ AppInit
    /\ queue_cap = MaxShellQueue
    /\ mr = NoMapping
    /\ so = NoOverlay
    /\ rf = NoRefresh

ShellNext ==
    \/ Next
    \/ SendFromListener
    \/ SendFromContext
    \/ SendFromCanvas
    \/ SendMessage
    \/ UpdateForward
    \/ UpdateMessage

ShellSpec == ShellInit /\ [][ShellNext]_vars

(***************************************************************************)
(* common_util::range::map_ranges, as status_overlay calls it              *)
(***************************************************************************)

\* The variables of App and of its scheduler: the components below leave
\* them alone.
shell == <<app, animation_frame, queue, render_queued, rendered_queued, has_rendered, init_task,
           view_canvas, calls, console, renderer, handled, ghost, outbound_enabled, queue_cap>>

\* A number n/d, d > 0: the quotients of the mapping are kept exact.
Frac(n, d) == IF d < 0 THEN [n |-> -n, d |-> -d] ELSE [n |-> n, d |-> d]
FracLe(a, b) == a.n * b.d <= b.n * a.d
FracEq(a, b) == a.n * b.d = b.n * a.d
FracMul(a, k) == [n |-> a.n * k, d |-> a.d]
Min(a, b) == IF a <= b THEN a ELSE b
Max(a, b) == IF a <= b THEN b ELSE a

\* t = (value - s0) / (s1 - s0)
Normalized(value, s0, s1) == Frac(value - s0, s1 - s0)
\* t restricted to [0, 1]
Clamp01(t) ==
    IF t.n < 0 THEN Frac(0, 1)
    ELSE IF t.n > t.d THEN Frac(1, 1)
    ELSE t
\* d0 + t * (d1 - d0)
Lerp(t, d0, d1) == Frac(d0 * t.d + t.n * (d1 - d0), t.d)

\* Variant of MapRanges: the clamp flag is ignored.
MapRangesNeverClamps(value, s0, s1, d0, d1, clamp) == Lerp(Normalized(value, s0, s1), d0, d1)

\* Variant of MapRanges: t is always clamped.
MapRangesAlwaysClamps(value, s0, s1, d0, d1, clamp) ==
    Lerp(Clamp01(Normalized(value, s0, s1)), d0, d1)

\* map_ranges(value, s0..s1, d0..d1, clamp), for s0 # s1
MapRanges(value, s0, s1, d0, d1, clamp) ==
    LET t == Normalized(value, s0, s1)
    IN  Lerp(IF clamp THEN Clamp01(t) ELSE t, d0, d1)

\* The arguments map_ranges is evaluated on: values below, inside, at the
\* ends of and above the source interval; source and destination
\* intervals in both directions.
MapValues == {-10, 0, 50, 100, 150}
SourceEnds == {0, 50, 100}
DestEnds == {-1, 0, 1}

\* A call of map_ranges with distinct source endpoints.
MapInit ==
    /\ AppInit
    /\ queue_cap = MaxQueue
    /\ so = NoOverlay
    /\ rf = NoRefresh
    /\ \E value \in MapValues, s0 \in SourceEnds, s1 \in SourceEnds,
          d0 \in DestEnds, d1 \in DestEnds, clamp \in BOOLEAN :
          /\ s0 # s1
          /\ mr = [phase |-> "called", value |-> value, s0 |-> s0, s1 |-> s1,
                   d0 |-> d0, d1 |-> d1, clamp |-> clamp, result |-> Frac(0, 1)]

\* map_ranges returns.
MapRangesReturns ==
    /\ mr.phase = "called"
    /\ mr' = [mr EXCEPT !.phase = "returned",
                        !.result = MapRanges(mr.value, mr.s0, mr.s1, mr.d0, mr.d1, mr.clamp)]
    /\ UNCHANGED <<shell, so, rf>>

MapNext == MapRangesReturns

MapSpec == MapInit /\ [][MapNext]_vars

(***************************************************************************)
(* StatusOverlay                                                           *)
(***************************************************************************)

\* Variant of StatusOverlayClamp: the progress is not clamped.
StatusOverlayNoClamp == FALSE

\* The last argument of the map_ranges call: true
StatusOverlayClamp == TRUE

\* f as u8, for f a number: toward zero, saturating at 0 and 255
AsU8(f) == IF f.n < 0 THEN 0 ELSE Min(255, f.n \div f.d)

\* if next_level <= EntityData::MAX_BOAT_LEVEL { <Meter ..> }
MeterShown(next_level, max_boat_level) == next_level <= max_boat_level

\* The props and the game data of one render: the score, the level of the
\* boat, what level_to_score returns for it and for the next level, and
\* EntityData::MAX_BOAT_LEVEL.
Scores == {0, 5, 10, 30, 40}
Levels == {1, 2, 3}
LevelScores == {0, 10, 30}
MaxBoatLevels == {2, 3}

\* StatusOverlay is about to render; level_to_score gave two different
\* scores (map_ranges needs distinct endpoints).
OverlayInit ==
    /\ AppInit
    /\ queue_cap = MaxQueue
    /\ mr = NoMapping
    /\ rf = NoRefresh
    /\ \E score \in Scores, level \in Levels, level_score \in LevelScores,
          next_level_score \in LevelScores, max \in MaxBoatLevels :
          /\ level_score # next_level_score
          /\ level <= max
          /\ so = [phase |-> "props", score |-> score, level |-> level,
                   level_score |-> level_score, next_level_score |-> next_level_score,
                   max_boat_level |-> max, progress |-> Frac(0, 1), meter |-> FALSE,
                   value |-> Frac(0, 1), percent |-> 0]

\* fn status_overlay
StatusOverlayRenders ==
    /\ so.phase = "props"
    /\ LET next_level == so.level + 1
           progress == MapRanges(so.score, so.level_score, so.next_level_score, 0, 1,
                                 StatusOverlayClamp)
           shown == MeterShown(next_level, so.max_boat_level)
       IN  so' = [so EXCEPT !.phase = "rendered",
                            !.progress = progress,
                            !.meter = shown,
                            !.value = IF shown THEN progress ELSE so.value,
                            !.percent = IF shown THEN AsU8(FracMul(progress, 100)) ELSE so.percent]
    /\ UNCHANGED <<shell, mr, rf>>

OverlayNext == StatusOverlayRenders

OverlaySpec == OverlayInit /\ [][OverlayNext]_vars

(***************************************************************************)
(* The Refresh button of the FatalError overlay                            *)
(***************************************************************************)

\* How many times the button is clicked.
MaxClicks == 3

\* What the promise of fetch can settle to: a rejection, a value that is
\* not a Response, a Response with or without an ok status.
FetchOutcomes == {"rejected", "not_response", "response_ok", "response_not_ok"}

\* Variant of ReloadsOn: the page is reloaded whatever the status is.
ReloadsOnAnyResponse(ok) == TRUE

\* if response.ok() { let _ = window.location().reload(); }
ReloadsOn(ok) == ok

\* The future's position after the fetch settled: the three early returns
\* of Err, or the end of the block.
AfterFetch(outcome) ==
    CASE outcome = "rejected" -> "err_fetch"
      [] outcome = "not_response" -> "err_cast"
      [] OTHER -> "ok"

\* The overlay is on the page; the button was not clicked yet.
RefreshInit ==
    /\ AppInit
    /\ queue_cap = MaxQueue
    /\ mr = NoMapping
    /\ so = NoOverlay
    /\ rf = [page |-> "error_dialog", tasks |-> <<>>]

\* onclick={refresh}: future_to_promise starts a future.
RefreshClick ==
    /\ rf.page = "error_dialog"
    /\ Len(rf.tasks) < MaxClicks
    /\ rf' = [rf EXCEPT !.tasks = Append(@, [pc |-> "start", outcome |-> "none", reload |-> FALSE])]
    /\ UNCHANGED <<shell, mr, so>>

\* The future runs up to its await: Request::new_with_str_and_init
\* returns Err, or the request is built and fetched.
RefreshRequest ==
    /\ \E i \in 1..Len(rf.tasks) :
          /\ rf.tasks[i].pc = "start"
          /\ \E built \in BOOLEAN :
                rf' = [rf EXCEPT !.tasks[i].pc = IF built THEN "fetching" ELSE "err_request"]
    /\ UNCHANGED <<shell, mr, so>>

\* The fetch settles and the future runs to its end.
RefreshSettles ==
    /\ \E i \in 1..Len(rf.tasks) :
          /\ rf.tasks[i].pc = "fetching"
          /\ \E outcome \in FetchOutcomes :
                LET reload == AfterFetch(outcome) = "ok" /\ ReloadsOn(outcome = "response_ok")
                IN  rf' = [rf EXCEPT !.tasks[i] = [pc |-> AfterFetch(outcome), outcome |-> outcome,
                                                   reload |-> reload],
                                     !.page = IF reload THEN "reloaded" ELSE @]
    /\ UNCHANGED <<shell, mr, so>>

RefreshNext ==
    \/ RefreshClick
    \/ RefreshRequest
    \/ RefreshSettles

RefreshSpec == RefreshInit /\ [][RefreshNext]_vars

TypeOK ==
    /\ recreating_canvas \in RecreatingCanvas
    /\ infrastructure \in {"None", "Some", "panicked"}
    /\ animation_frame \in {"requested", "fired"}
    /\ init_task \in {"not_started", "pending", "done"}
    /\ render_queued \in BOOLEAN
    /\ rendered_queued \in BOOLEAN
    /\ recreate_credit \in -1..MaxCredit
    /\ renderer \in {"ok", "failed"}
    /\ previous \in RecreatingCanvas
    /\ Len(entered) <= 2

(***************************************************************************)
(* Properties                                                              *)
(***************************************************************************)

FrameCall == Call("frame", "")
RecreateCalls == {Call("recreate_renderer", r) : r \in RendererResults}
Called(c) == \E i \in 1..Len(calls) : calls[i] = c
RecreateCalled == \E c \in RecreateCalls : Called(c)
Waiting(m) == \E i \in 1..Len(queue) : queue[i] = m

\* C1 (as stated): recreating_canvas starts at None and every change of
\* its value is None->Started, Started->Finished or Finished->None.
C1_StrictCycle ==
    /\ recreating_canvas = "None"
    /\ [][recreating_canvas' # recreating_canvas =>
            <<recreating_canvas, recreating_canvas'>> \in
                {<<"None", "Started">>, <<"Started", "Finished">>, <<"Finished", "None">>}]_vars

\* C1 (amended): recreating_canvas starts at None and every change of its
\* value is None->Started, Started->Finished, Finished->None or, when a
\* RecreateCanvas is handled before the renderer was recreated,
\* Finished->Started; a step is never skipped (no None->Finished, no
\* Started->None).
C1_CycleWithRestart ==
    /\ recreating_canvas = "None"
    /\ [][recreating_canvas' # recreating_canvas =>
            <<recreating_canvas, recreating_canvas'>> \in
                {<<"None", "Started">>, <<"Started", "Finished">>, <<"Finished", "None">>,
                 <<"Finished", "Started">>}]_vars

\* C1 witness: the state went Started, Finished and back to Started.
C1_Witness ==
    /\ entered = <<"Finished", "Started">>
    /\ previous = "Finished"
    /\ recreating_canvas = "Started"

\* C2 (as stated): whenever a Frame message calls infrastructure.frame(),
\* the Canvas element is in the most recently rendered view.
C2_FrameHasCanvas == Called(FrameCall) => view_canvas

\* C3 (as stated): a RecreateCanvas handled while recreating_canvas is
\* Started or Finished does not change recreating_canvas.
C3_Debounce ==
    [][(UpdateRecreateCanvas /\ recreating_canvas # "None") =>
            recreating_canvas' = recreating_canvas]_vars

\* C3 (amended): a RecreateCanvas handled while recreating_canvas is
\* Started or Finished is accepted: it sets recreating_canvas to Started
\* (from Finished this restarts the sequence) and schedules a render.
C3_Restart ==
    [][(UpdateRecreateCanvas /\ recreating_canvas # "None") =>
            (recreating_canvas' = "Started" /\ render_queued' /\ rendered_queued')]_vars

\* C3 witness: a RecreateCanvas was just handled in state Finished.
C3_Witness ==
    /\ handled = "RecreateCanvas"
    /\ previous = "Finished"
    /\ recreating_canvas = "Started"
    /\ render_queued

\* C4: the values other than None that recreating_canvas changes to
\* alternate Started, Finished, Started, ...: Finished is entered only from
\* Started and Started is never entered twice in a row, also with renders
\* caused by other messages while a recreation is in flight.
C4_Alternates ==
    /\ entered \in {<<>>, <<"Started">>, <<"Started", "Finished">>, <<"Finished", "Started">>}
    /\ recreating_canvas = "Finished" => previous = "Started"

\* C4 witness: a SetUiProps was handled, and forces a render, while a
\* recreation is in state Finished.
C4_Witness ==
    /\ entered = <<"Started", "Finished">>
    /\ recreating_canvas = "Finished"
    /\ handled = "SetUiProps"
    /\ recreate_credit = 1

\* C5: recreate_renderer() is never called more often than RecreateCanvas
\* messages were handled.
C5_OncePerRequest == recreate_credit >= 0

\* C5 witness: one request, a render forced by another message while the
\* state was Finished, and exactly one recreate_renderer() call.
C5_Witness ==
    /\ RecreateCalled
    /\ recreate_credit = 0
    /\ ui_props = "props"

\* C6 (as stated): while recreating_canvas = Finished a Frame message does
\* not call infrastructure.frame().
C6_NoFrameWhileFinished == Called(FrameCall) => recreating_canvas # "Finished"

\* C6 (amended): infrastructure.frame() is not called while
\* recreating_canvas = Started; in state Finished, before the renderer is
\* recreated, a Frame message does call it.
C6_NoFrameWhileStarted == Called(FrameCall) => recreating_canvas # "Started"

\* C6 witness: a Frame was drawn in state Finished.
C6_Witness ==
    /\ Called(FrameCall)
    /\ recreating_canvas = "Finished"

\* C7: on a Frame message with infrastructure present, frame() is skipped
\* if and only if recreating_canvas = Started.
C7_SkipIffStarted ==
    (handled = "Frame" /\ infrastructure = "Some") =>
        (calls = <<>> <=> recreating_canvas = "Started")

\* C7 witness: a Frame was skipped in state Started with infrastructure present.
C7_Witness ==
    /\ handled = "Frame"
    /\ infrastructure = "Some"
    /\ recreating_canvas = "Started"
    /\ calls = <<>>

\* C8: when recreate_renderer() returns an error, recreating_canvas still
\* becomes None, exactly one error line is reported, fatal_error is left
\* unchanged, and a render is scheduled.
C8_FailureIsNotFatal ==
    [][Called(Call("recreate_renderer", "Err"))' =>
            /\ recreating_canvas' = "None"
            /\ console' = <<"could not recreate renderer">>
            /\ fatal_error' = fatal_error
            /\ render_queued']_vars

\* C8 witness: after a failed recreation a later request ran a fresh
\* sequence up to the RecreateRenderer that retries.
C8_Witness ==
    /\ renderer = "failed"
    /\ recreating_canvas = "Finished"
    /\ queue = <<RecreateRendererMsg>>
    /\ fatal_error = "None"

\* C9 (as stated): every recreation that has started reaches None again.
C9_AlwaysCompletes == (recreating_canvas = "Started") ~> (recreating_canvas = "None")

\* C9 (amended): a recreation in flight reaches None again, and with
\* infrastructure present recreate_renderer() is called, unless a new
\* RecreateCanvas arrives first (which restarts the sequence); no other
\* event is needed.
C9_CompletesOrRestarts ==
    /\ (recreating_canvas # "None") ~>
           (recreating_canvas = "None" \/ Waiting(RecreateCanvasMsg))
    /\ (recreating_canvas # "None" /\ infrastructure = "Some") ~>
           (RecreateCalled \/ Waiting(RecreateCanvasMsg))

\* C9 witness: a recreation has completed with a recreate_renderer() call.
C9_Witness ==
    /\ handled = "RecreateRenderer"
    /\ RecreateCalled
    /\ recreating_canvas = "None"
    /\ previous = "Finished"

\* C10: recreate_renderer() is called only after one render pass removed
\* the canvas and a later one put it back: never while the most recently
\* rendered view has no Canvas.
C10_RecreateAfterRestore ==
    [][RecreateCalled' => (view_canvas /\ view_canvas' /\ canvas_cycle = "restored")]_vars

\* C10 witness: the renderer was recreated, with the canvas back in the
\* view, once for two RecreateCanvas messages.
C10_Witness ==
    /\ RecreateCalled
    /\ view_canvas
    /\ recreate_credit = 1

\* C11: a RecreateCanvas message handled in any lifecycle state leaves
\* recreating_canvas = Started with a render and its rendered() scheduled
\* (update() returned true); the value stays Started until that render
\* runs, and the view it produces has no Canvas element.
C11_RebuildAnyTime ==
    /\ [](handled = "RecreateCanvas" =>
            (recreating_canvas = "Started" /\ render_queued /\ rendered_queued))
    /\ [][(recreating_canvas = "Started" /\ render_queued) => recreating_canvas' = "Started"]_vars
    /\ [][(recreating_canvas = "Started" /\ render_queued /\ ~render_queued') => ~view_canvas']_vars

\* C11 witness: the render that followed a RecreateCanvas handled in state
\* Finished has produced a view without the Canvas.
C11_Witness ==
    /\ recreating_canvas = "Started"
    /\ previous = "Finished"
    /\ ~render_queued
    /\ rendered_queued
    /\ ~view_canvas
    /\ handled = ""

\* C13: a Frame message handled while recreating_canvas = None leaves it
\* None, puts no message on the queue, schedules no render, and, with
\* infrastructure present, calls frame().
C13_IdleFrame ==
    [][(handled' = "Frame" /\ recreating_canvas = "None") =>
            /\ recreating_canvas' = "None"
            /\ queue' = Tail(queue)
            /\ render_queued' = render_queued
            /\ rendered_queued' = rendered_queued
            /\ (infrastructure = "Some" => Called(FrameCall)')]_vars

\* C13 witness: an idle Frame was rendered after a completed recreation.
C13_Witness ==
    /\ handled = "Frame"
    /\ recreating_canvas = "None"
    /\ previous = "Finished"
    /\ Called(FrameCall)

\* The results of the initialisation that wait in the queue.
InitResultsWaiting ==
    Cardinality({i \in 1..Len(queue) : queue[i].msg \in {"CreateInfrastructure", "FatalError"}})

\* C14: only the first rendered() starts the initialisation; at most one
\* of its results is ever waiting, and none before the task is done or
\* after the result was handled; the assertion of the CreateInfrastructure
\* handler holds whenever the handler runs; infrastructure, once Some,
\* stays Some.
C14_InitOnce ==
    /\ [][(init_task' = "pending" /\ init_task # "pending") =>
            (~has_rendered /\ has_rendered' /\ init_task = "not_started")]_vars
    /\ [](InitResultsWaiting <= 1)
    /\ []((init_task # "done" \/ infrastructure # "None" \/ fatal_error # "None") =>
            InitResultsWaiting = 0)
    /\ [](~(infrastructure # "None" /\ fatal_error # "None"))
    /\ [][handled' = "CreateInfrastructure" => CreateInfrastructureAsserts(infrastructure)]_vars
    /\ [][infrastructure = "Some" => infrastructure' = "Some"]_vars

\* C14 witness: CreateInfrastructure was just handled, after the first
\* rendered() was followed by others.
C14_Witness ==
    /\ handled = "CreateInfrastructure"
    /\ infrastructure = "Some"
    /\ init_task = "done"
    /\ entered # <<>>

\* C19: every handled Frame message requests the next animation frame,
\* whatever recreating_canvas and infrastructure are; at every moment a
\* frame is requested or a Frame message waits; and Frame messages are
\* handled again and again, during and after a canvas recreation.
C19_FrameLoop ==
    /\ [][handled' = "Frame" => animation_frame' = "requested"]_vars
    /\ [](animation_frame = "requested" \/ Waiting(FrameMsg))
    /\ []<>(handled = "Frame")

\* C19 witness: a Frame handled in the middle of a recreation, before
\* infrastructure exists, has requested the next frame.
C19_Witness ==
    /\ handled = "Frame"
    /\ recreating_canvas = "Finished"
    /\ infrastructure = "None"
    /\ calls = <<>>
    /\ animation_frame = "requested"

LifecycleKinds == {"RecreateCanvas", "RecreateCanvasPart2", "RecreateRenderer"}

\* C12: recreating_canvas is None after create(), and of all variants of
\* AppMsg only RecreateCanvas, RecreateCanvasPart2 and RecreateRenderer
\* change it; view() and rendered() do not change it either.
C12_OnlyLifecycle ==
    /\ recreating_canvas = "None"
    /\ [][recreating_canvas' # recreating_canvas => handled' \in LifecycleKinds]_vars

\* C12 witness: a Message was handled in the middle of a recreation and
\* changed another field of App.
C12_Witness ==
    /\ handled = "Message"
    /\ recreating_canvas = "Started"
    /\ ~outbound_enabled
    /\ render_queued

\* The messages whose arm does nothing without infrastructure.
DroppedKinds == ForwardKinds \cup {"Frame", "Keyboard"}

\* C20: while infrastructure = None, a message that is only forwarded to
\* infrastructure changes no field of App, calls and logs nothing, sends
\* nothing and schedules no render; only a Frame changes the animation
\* frame, to requested. RecreateRenderer then sets recreating_canvas to
\* None without a call.
C20_DroppedBeforeInfrastructure ==
    /\ [][(infrastructure = "None" /\ handled' \in DroppedKinds) =>
            /\ app' = app
            /\ outbound_enabled' = outbound_enabled
            /\ calls' = <<>>
            /\ console' = <<>>
            /\ queue' = Tail(queue)
            /\ render_queued' = render_queued
            /\ rendered_queued' = rendered_queued
            /\ (animation_frame' # animation_frame =>
                    (handled' = "Frame" /\ animation_frame' = "requested"))]_vars
    /\ [][(infrastructure = "None" /\ handled' = "RecreateRenderer") =>
            (recreating_canvas' = "None" /\ calls' = <<>> /\ render_queued')]_vars

\* C20 witness: a settings change was dropped without a render, after a
\* recreation that ended without infrastructure.
C20_Witness ==
    /\ handled = "ChangeSettings"
    /\ infrastructure = "None"
    /\ ~render_queued
    /\ ~rendered_queued
    /\ previous = "Finished"
    /\ recreating_canvas = "None"

\* A returned call of map_ranges on the given arguments.
Mapped(value, s0, s1, d0, d1, clamp) ==
    /\ mr.phase = "returned"
    /\ <<mr.value, mr.s0, mr.s1, mr.d0, mr.d1, mr.clamp>> = <<value, s0, s1, d0, d1, clamp>>

\* C15: with clamp = true and s0 # s1 the result of map_ranges lies
\* between min(d0, d1) and max(d0, d1) for every value; 50, 150 and -10
\* mapped from [0,100) to [0,1) give 1/2, 1 and 0.
C15_ClampedInDestination ==
    /\ (mr.phase = "returned" /\ mr.clamp) =>
            /\ FracLe(Frac(Min(mr.d0, mr.d1), 1), mr.result)
            /\ FracLe(mr.result, Frac(Max(mr.d0, mr.d1), 1))
    /\ Mapped(50, 0, 100, 0, 1, TRUE) => FracEq(mr.result, Frac(1, 2))
    /\ Mapped(150, 0, 100, 0, 1, TRUE) => FracEq(mr.result, Frac(1, 1))
    /\ Mapped(-10, 0, 100, 0, 1, TRUE) => FracEq(mr.result, Frac(0, 1))

\* C15 witness: a value above a reversed source interval was mapped, with
\* clamping, to the start of the destination interval.
C15_Witness ==
    /\ Mapped(150, 100, 0, -1, 1, TRUE)
    /\ FracEq(mr.result, Frac(-1, 1))

\* value lies in the half-open source interval, in either direction.
InSource(value, s0, s1) == (s0 <= value /\ value < s1) \/ (s1 < value /\ value <= s0)

\* C16: with clamp = false and s0 # s1 the result of map_ranges is
\* d0 + ((value - s0) / (s1 - s0)) * (d1 - d0) for every value, also
\* outside the source interval: (result - d0) * (s1 - s0) =
\* (value - s0) * (d1 - d0); 150 mapped from [0,100) to [0,1) gives 3/2;
\* and for a value inside the source interval the result is the clamped one.
C16_UnclampedIsLinear ==
    /\ (mr.phase = "returned" /\ ~mr.clamp) =>
            /\ (mr.result.n - mr.d0 * mr.result.d) * (mr.s1 - mr.s0) =
                    (mr.value - mr.s0) * (mr.d1 - mr.d0) * mr.result.d
            /\ InSource(mr.value, mr.s0, mr.s1) =>
                    FracEq(mr.result, MapRanges(mr.value, mr.s0, mr.s1, mr.d0, mr.d1, TRUE))
    /\ Mapped(150, 0, 100, 0, 1, FALSE) => FracEq(mr.result, Frac(3, 2))

\* C16 witness: a value below the source interval was mapped, without
\* clamping, to a number outside the destination interval.
C16_Witness ==
    /\ Mapped(-10, 0, 100, 0, 1, FALSE)
    /\ FracEq(mr.result, Frac(-1, 10))

\* C17: when the score of the level is below the score of the next level,
\* the progress StatusOverlay computes is the clamped mapping of the score
\* from [level_score, next_level_score) to [0,1) and lies in [0,1]; a
\* shown Meter receives that value and a percentage in 0..100; and the
\* Meter is shown only when level + 1 <= MAX_BOAT_LEVEL.
C17_MeterRatio ==
    (so.phase = "rendered" /\ so.level_score < so.next_level_score) =>
        /\ FracEq(so.progress, Lerp(Clamp01(Normalized(so.score, so.level_score,
                                                       so.next_level_score)), 0, 1))
        /\ FracLe(Frac(0, 1), so.progress)
        /\ FracLe(so.progress, Frac(1, 1))
        /\ so.meter => /\ so.level + 1 <= so.max_boat_level
                       /\ so.value = so.progress
                       /\ so.percent \in 0..100

\* C17 witness: a score past the next level's is shown as a full meter.
C17_Witness ==
    /\ so.phase = "rendered"
    /\ so.score = 40
    /\ so.level_score = 10
    /\ so.next_level_score = 30
    /\ so.meter
    /\ so.percent = 100

\* C18: a future of the Refresh button has called reload() if and only if
\* its request was built, its fetch resolved to a Response and the
\* Response was ok; the page is reloaded only by such a future, and
\* otherwise the error dialog is still there.
C18_ReloadIffPreflightOk ==
    rf.page # "none" =>
        /\ \A i \in 1..Len(rf.tasks) :
              /\ rf.tasks[i].reload <=>
                    (rf.tasks[i].pc = "ok" /\ rf.tasks[i].outcome = "response_ok")
              /\ rf.tasks[i].pc \in {"err_request", "err_fetch", "err_cast"} => ~rf.tasks[i].reload
              /\ rf.tasks[i].outcome # "none" => rf.tasks[i].pc \notin {"start", "fetching", "err_request"}
        /\ rf.page = "reloaded" <=> \E i \in 1..Len(rf.tasks) : rf.tasks[i].reload
        /\ rf.page = "error_dialog" <=> \A i \in 1..Len(rf.tasks) : ~rf.tasks[i].reload

\* C18 witness: after a click that failed on a status that is not ok and
\* one whose request could not be built, a third click reloaded the page.
C18_Witness ==
    /\ rf.page = "reloaded"
    /\ Len(rf.tasks) = 3
    /\ rf.tasks[1].outcome = "response_not_ok"
    /\ rf.tasks[2].pc = "err_request"
    /\ rf.tasks[3].reload

\* This step handled the parent-window string s.
MessageHandled(s) == handled' = "Message" /\ console' = <<MessageLog(s)>>

\* C22: outbound_enabled is true after create(); a handled "enableOutbound"
\* makes it true, a handled "disableOutbound" makes it false, and every
\* other step, among them every other message and every other string of
\* the parent window, leaves it as it is. So it is false exactly when
\* the last of the two strings handled was "disableOutbound".
C22_OutboundFollowsLastSwitch ==
    /\ outbound_enabled = TRUE
    /\ [][outbound_enabled' =
            IF MessageHandled("enableOutbound") THEN TRUE
            ELSE IF MessageHandled("disableOutbound") THEN FALSE
            ELSE outbound_enabled]_vars

\* C22 witness: "snippetLoaded" was handled after a "disableOutbound" and
\* left outbound_enabled false.
C22_Witness ==
    /\ handled = "Message"
    /\ console = <<MessageLog("snippetLoaded")>>
    /\ Called(Call("post_message", "gameLoaded"))
    /\ ~outbound_enabled

\* This step is a render pass: only view() takes the scheduled render.
ViewStep == render_queued /\ ~render_queued'

\* C21: no step takes fatal_error from Some back to None; and a view
\* rendered while the connection is lost or fatal_error is set has, after
\* the Canvas, the FatalError overlay and nothing else (no UI, no routed
\* page, no context menu, no Reconnecting), with the connection-lost
\* message when the connection is lost and the stored message otherwise.
\* The last conjunct states the same of view() for every combination of
\* its inputs, among them a lost connection together with a stored
\* message, which no run of App reaches.
C21_FatalErrorExclusive ==
    /\ [][fatal_error # "None" => fatal_error' # "None"]_vars
    /\ [][ViewStep =>
            LET lost == Called(Call("connection_lost", "true"))'
                reconnecting == Called(Call("is_reconnecting", "true"))'
            IN  (lost \/ fatal_error' # "None") =>
                    Overlays(lost, fatal_error', context_menu', reconnecting) =
                        {<<"FatalError",
                           IF lost THEN "connection_lost_message" ELSE fatal_error'>>}]_vars
    /\ [](\A lost \in BOOLEAN, fatal \in ErrorValues \cup {"None"},
              menu \in ContextMenuValues, reconnecting \in BOOLEAN :
              (lost \/ fatal # "None") =>
                  Overlays(lost, fatal, menu, reconnecting) =
                      {<<"FatalError", IF lost THEN "connection_lost_message" ELSE fatal>>})

\* C21 witness: a view was rendered with the connection lost while a
\* context menu was set; it shows the connection-lost overlay alone.
C21_Witness ==
    /\ Called(Call("connection_lost", "true"))
    /\ context_menu = "menu"
    /\ ~render_queued
    /\ Overlays(TRUE, fatal_error, context_menu, FALSE) =
            {<<"FatalError", "connection_lost_message">>}

====
